---------------------------- MODULE Spec2Model ----------------------------
(***************************************************************************)
(* Carousel and navigation state engine of the TV launcher:                *)
(*   src/tvlauncher_Windows.py   TVLauncher (carousel, menu, launch, pad)  *)
(*   src/modules/app_reorder.py  ReorderMode and integrate_reorder_mode    *)
(*                                                                         *)
(* The program is single-threaded: every handler (key event, controller    *)
(* button, timer callback, dialog result) runs to completion, so each is   *)
(* one action.  Handlers are written as operators from a state record to   *)
(* a state record, so that a handler that calls another one (the patched   *)
(* keyPressEvent falling through to the original one, a controller button  *)
(* posting a key) is the composition the code performs.  Indices are       *)
(* 0-based as in the source; apps[k] of the source is s.apps[k + 1].       *)
(* Time is counted in milliseconds and advances by Quantum per Tick.       *)
(***************************************************************************)
EXTENDS Integers, Sequences, FiniteSets, TLC

VARIABLES
    apps,                 \* TVLauncher.apps: the ordered item list (item ids)
    current_index,        \* TVLauncher.current_index (FocusIndex)
    tiles,                \* TVLauncher.tiles: [app_index, is_focused] per slot
    is_animating,         \* TVLauncher.is_animating (animation lock)
    anim_dir,             \* direction captured by the running animation group
    anim_timer,           \* ms left of the running animation group, -1 if none
    is_in_menu,           \* TVLauncher.is_in_menu
    menu_button_index,    \* TVLauncher.menu_button_index
    inputs_enabled,       \* TVLauncher.inputs_enabled
    launched_process,     \* TVLauncher.launched_process is not None
    process_check_timer,  \* ms left of process_check_timer, -1 if none
    proc_alive,           \* environment: the launched process still runs
    writable,             \* environment: the config file can be written
    dialog,               \* the modal dialog whose exec() is running, or "none"
    is_active,            \* ReorderMode.is_active
    selected_index,       \* ReorderMode.selected_index (None is -1)
    target_index,         \* ReorderMode.target_index (None is -1)
    long_press_timer,     \* ms left of long_press_timer, -1 if stopped
    recently_exited,      \* ReorderMode.recently_exited (exit cooldown)
    exit_cooldown_timer,  \* ms left of exit_cooldown_timer, -1 if stopped
    last_button_times,    \* ReorderMode.last_button_times: ms of debounce left
    button_cooldown,      \* TVLauncher.button_cooldown: ms of debounce left
    axis_cooldown,        \* TVLauncher.axis_cooldown: polls of cooldown left
    last_hat,             \* TVLauncher.last_hat
    last_axis_state,      \* TVLauncher.last_axis_state: sign recorded per axis
    numhats,              \* joystick.get_numhats() of the attached controller
    alive,                \* "running", "closed" (window closed) or "crashed"
    mutations,            \* number of changes made to apps so far (bounded)
    budget,               \* user inputs still to come in this run, -1: any number
    ev,                   \* history: the handler that ran last
    res,                  \* history: what that handler did
    sess,                 \* history: the reorder session since its activation
    since_exit,           \* history: kind of, and ms since, the last exit
    hold,                 \* history: ms Enter has been held since a press that
                          \* met the long-press preconditions, -1 if none
    pad,                  \* history: what the last poll read, and the commands
                          \* fired while each reading stayed the same
    gap,                  \* history: per button, ms left of the debounce window
                          \* since its last poll that resolved to a command
    watch                 \* whether this run records the controller history
                          \* (pad, gap)

vars == <<apps, current_index, tiles, is_animating, anim_dir, anim_timer,
          is_in_menu, menu_button_index, inputs_enabled, launched_process,
          process_check_timer, proc_alive, writable, dialog, is_active,
          selected_index,
          target_index, long_press_timer, recently_exited, exit_cooldown_timer,
          last_button_times, button_cooldown, axis_cooldown, last_hat,
          last_axis_state, numhats, alive, mutations, budget, ev, res, sess,
          since_exit, hold, pad, gap, watch>>

-----------------------------------------------------------------------------
(* Bounds of the model *)

MaxN == 6
Quantum == 250
MaxMutations == 1
MaxInputs == 6
SmallN == 2
PadN == 1
MaxPresses == 4

(* Constants of the program *)

max_visible_tiles == 9
center_tile_index == 4
AnimDuration == 250
long_press_duration == 800
ExitCooldown == 500
ConfirmCooldown == 1000
ButtonDebounce == 300
ProcessCheckInterval == 1000
LinearLimit == 5
NumMenuButtons == 3
None == -1
Unlimited == None

AxisCooldown == 2

(* Controller buttons: A, B, X, Y, RB, Start *)
Buttons == {0, 1, 2, 3, 5, 9}
ButtonName(b) ==
    CASE b = 0 -> "A" [] b = 1 -> "B" [] b = 2 -> "X" [] b = 3 -> "Y"
      [] b = 5 -> "RB" [] b = 9 -> "Start" [] OTHER -> ""

(* What one poll reads: the hat as a pair in {-1,0,1}, each stick axis as   *)
(* -1 / 1 beyond the dead zone and 0 inside it, and the pressed button      *)
Hats == {<<hx, hy>> : hx \in {0 - 1, 0, 1}, hy \in {0 - 1, 0, 1}}
Neutral == <<0, 0>>
Axis == {0 - 1, 0, 1}
NoRead == [polled |-> FALSE, hat |-> Neutral, x |-> 0, y |-> 0, b |-> None]
Keys == {"Left", "Right", "Up", "Down", "Return", "Escape", "Delete", "E", "R"}

-----------------------------------------------------------------------------
(* The state as one record, so that handlers compose as in the code.        *)
(* ret is the value a handler returns, raised an exception on its way up,   *)
(* posted the keys simulate_key_press posted and the window each went to,   *)
(* read what a poll read, res what the handler did.                         *)

Cur ==
    [apps |-> apps, current_index |-> current_index, tiles |-> tiles,
     is_animating |-> is_animating, anim_dir |-> anim_dir,
     anim_timer |-> anim_timer, is_in_menu |-> is_in_menu,
     menu_button_index |-> menu_button_index,
     inputs_enabled |-> inputs_enabled, launched_process |-> launched_process,
     process_check_timer |-> process_check_timer, proc_alive |-> proc_alive,
     writable |-> writable, dialog |-> dialog, is_active |-> is_active,
     selected_index |-> selected_index, target_index |-> target_index,
     long_press_timer |-> long_press_timer,
     recently_exited |-> recently_exited,
     exit_cooldown_timer |-> exit_cooldown_timer,
     last_button_times |-> last_button_times,
     button_cooldown |-> button_cooldown, axis_cooldown |-> axis_cooldown,
     last_hat |-> last_hat, last_axis_state |-> last_axis_state,
     numhats |-> numhats, alive |-> alive,
     ret |-> FALSE, raised |-> FALSE, posted |-> <<>>, read |-> NoRead,
     res |-> {}]

Tag(s, t) == [s EXCEPT !.res = @ \cup {t}]
Raise(s) == [s EXCEPT !.raised = TRUE, !.res = @ \cup {"raised"}]
Return(s, v) == [s EXCEPT !.ret = v]

(* Python list operations, 0-based *)
Pop(seq, k) == SubSeq(seq, 1, k) \o SubSeq(seq, k + 2, Len(seq))
Insert(seq, k, x) ==
    LET kk == IF k > Len(seq) THEN Len(seq) ELSE k
    IN  SubSeq(seq, 1, kk) \o <<x>> \o SubSeq(seq, kk + 1, Len(seq))

-----------------------------------------------------------------------------
(* TVLauncher: carousel *)

build_infinite_carousel_noreset(s) ==
    IF s.apps = <<>>
    THEN [s EXCEPT !.tiles = <<>>]
    ELSE [s EXCEPT
            !.tiles = [i \in 1..max_visible_tiles |->
                         [app_index |-> (s.current_index + ((i - 1) - center_tile_index))
                                            % Len(s.apps),
                          is_focused |-> ((i - 1) = center_tile_index)]]]

build_infinite_carousel(s) ==
    IF s.apps = <<>>
    THEN [s EXCEPT !.tiles = <<>>]
    ELSE LET ci == IF s.current_index >= Len(s.apps) THEN 0 ELSE s.current_index
             num_apps == Len(s.apps)
         IN  [s EXCEPT
                !.current_index = ci,
                !.tiles = [i \in 1..max_visible_tiles |->
                             [app_index |-> (ci + ((i - 1) - center_tile_index)) % num_apps,
                              is_focused |-> ((i - 1) = center_tile_index)]]]

animate_carousel(s, direction) ==
    IF s.is_animating \/ s.tiles = <<>>
    THEN Tag(s, "anim_refused")
    ELSE Tag([s EXCEPT !.is_animating = TRUE, !.anim_dir = direction,
                       !.anim_timer = AnimDuration], "anim_started")

set_focused_kept(ts) == ts

set_focused_all(ts) ==
    [i \in 1..Len(ts) |-> [ts[i] EXCEPT !.is_focused = ((i - 1) = center_tile_index)]]

reposition_tiles(s, direction) ==
    LET num_apps == Len(s.apps)
        done(ts) == Tag([s EXCEPT !.tiles = set_focused_all(ts),
                                  !.is_animating = FALSE,
                                  !.anim_dir = "none", !.anim_timer = -1],
                        "repositioned")
    IN  IF s.tiles = <<>>
        THEN Raise(s)                                     \* pop from empty list
        ELSE IF num_apps = 0
        THEN Raise([s EXCEPT !.tiles = IF direction = "right" THEN Tail(@)
                                       ELSE SubSeq(@, 1, Len(@) - 1)])  \* modulo by zero
        ELSE IF direction = "right"
        THEN done(Append(Tail(s.tiles),
                         [app_index |-> (s.current_index + 4) % num_apps,
                          is_focused |-> FALSE]))
        ELSE done(<<[app_index |-> (s.current_index - 4) % num_apps,
                     is_focused |-> FALSE]>>
                  \o SubSeq(s.tiles, 1, Len(s.tiles) - 1))

(* save_config: open(config_file, 'w') and json.dump, whose exceptions it   *)
(* does not catch                                                           *)
save_config(s) == IF s.writable THEN s ELSE Raise(Tag(s, "save_failed"))

-----------------------------------------------------------------------------
(* ReorderMode *)

_is_dialog_active(s) == s.dialog # "none"

cancel_long_press(s) == [s EXCEPT !.long_press_timer = -1]

force_cancel_all_timers(s) ==
    [s EXCEPT !.long_press_timer = -1, !.exit_cooldown_timer = -1]

start_long_press(s) ==
    IF /\ ~s.is_active
       /\ s.apps # <<>>
       /\ ~s.recently_exited
       /\ ~s.is_in_menu
       /\ ~_is_dialog_active(s)
    THEN Tag([s EXCEPT !.long_press_timer = long_press_duration], "lp_armed")
    ELSE Tag(s, "lp_rejected")

_activate_reorder_nomenu(s) ==
    LET s1 == [s EXCEPT !.long_press_timer = -1]
    IN  IF s1.apps # <<>> /\ ~s1.is_active /\ ~_is_dialog_active(s1)
        THEN Tag([s1 EXCEPT !.is_active = TRUE,
                            !.selected_index = s1.current_index,
                            !.target_index = s1.current_index], "activated")
        ELSE Tag(s1, "activate_blocked")

_activate_reorder(s) ==
    LET s1 == [s EXCEPT !.long_press_timer = -1]
    IN  IF /\ s1.apps # <<>>
           /\ ~s1.is_active
           /\ ~s1.is_in_menu
           /\ ~_is_dialog_active(s1)
        THEN LET s2 == Tag([s1 EXCEPT !.is_active = TRUE,
                                      !.selected_index = s1.current_index,
                                      !.target_index = s1.current_index],
                           "activated")
             IN  IF s2.selected_index >= Len(s2.apps)
                 THEN Raise(s2)              \* apps[selected_index] in the print
                 ELSE s2
        ELSE Tag(s1, "activate_blocked")

_exit_reorder(s) ==
    cancel_long_press([s EXCEPT !.is_active = FALSE,
                                !.selected_index = None,
                                !.target_index = None,
                                !.recently_exited = TRUE,
                                !.exit_cooldown_timer = ExitCooldown])

move_left(s) ==
    IF ~s.is_active THEN Return(s, FALSE)
    ELSE IF Len(s.apps) <= LinearLimit
    THEN IF s.target_index > 0
         THEN Return(Tag([s EXCEPT !.target_index = @ - 1], "move_left"), TRUE)
         ELSE Return(Tag(s, "move_refused"), FALSE)
    ELSE LET new_target == (s.target_index - 1) % Len(s.apps)
         IN  Return(animate_carousel(
                      Tag([s EXCEPT !.target_index = new_target,
                                    !.current_index = new_target], "move_left"),
                      "left"), TRUE)

move_right(s) ==
    IF ~s.is_active THEN Return(s, FALSE)
    ELSE IF Len(s.apps) <= LinearLimit
    THEN IF s.target_index < Len(s.apps) - 1
         THEN Return(Tag([s EXCEPT !.target_index = @ + 1], "move_right"), TRUE)
         ELSE Return(Tag(s, "move_refused"), FALSE)
    ELSE LET new_target == (s.target_index + 1) % Len(s.apps)
         IN  Return(animate_carousel(
                      Tag([s EXCEPT !.target_index = new_target,
                                    !.current_index = new_target], "move_right"),
                      "right"), TRUE)

confirm_reorder(s) ==
    IF ~s.is_active THEN Return(s, FALSE)
    ELSE LET s1 == [s EXCEPT !.recently_exited = TRUE]
             finish(x) ==
                 Return([build_infinite_carousel(_exit_reorder(x))
                            EXCEPT !.exit_cooldown_timer = ConfirmCooldown], TRUE)
         IN  IF s1.selected_index # s1.target_index
             THEN IF s1.selected_index >= Len(s1.apps)
                  THEN Raise(s1)                          \* pop index out of range
                  ELSE LET app_to_move == s1.apps[s1.selected_index + 1]
                           saved == save_config(Tag([s1 EXCEPT
                               !.apps = Insert(Pop(@, s1.selected_index),
                                               s1.target_index, app_to_move),
                               !.current_index = s1.target_index],
                             "confirmed_moved"))
                       IN  IF saved.raised THEN saved ELSE finish(saved)
             ELSE finish(Tag(s1, "confirmed_same"))

cancel_reorder_norestore(s) ==
    IF ~s.is_active THEN Return(s, FALSE)
    ELSE Return(build_infinite_carousel(_exit_reorder(Tag(s, "cancelled"))), TRUE)

cancel_reorder(s) ==
    IF ~s.is_active THEN Return(s, FALSE)
    ELSE LET original_index == s.selected_index
         IN  Return(build_infinite_carousel(
                      [_exit_reorder(Tag(s, "cancelled"))
                          EXCEPT !.current_index = original_index]), TRUE)

_clear_exit_cooldown(s) == [s EXCEPT !.recently_exited = FALSE]

-----------------------------------------------------------------------------
(* TVLauncher: launch, menu, dialogs, key handler *)

disable_inputs(s) == [s EXCEPT !.inputs_enabled = FALSE]
enable_inputs(s) == [s EXCEPT !.inputs_enabled = TRUE]

(* launch_ok: whether subprocess.Popen returns (TRUE) or raises (FALSE);    *)
(* on failure the handler waits in the critical message box.                *)
launch_current_app(s, launch_ok) ==
    IF s.apps = <<>> THEN s
    ELSE IF s.current_index >= Len(s.apps) THEN Raise(s)
    ELSE IF launch_ok
    THEN Tag([disable_inputs(s) EXCEPT !.launched_process = TRUE,
                                       !.proc_alive = TRUE,
                                       !.process_check_timer = ProcessCheckInterval],
             "launch_ok")
    ELSE Tag([s EXCEPT !.dialog = "launch_error"], "launch_failed")

enhanced_launch(s, launch_ok) ==
    launch_current_app(
        [force_cancel_all_timers(s) EXCEPT !.recently_exited = FALSE], launch_ok)

on_app_closed_disabled(s) ==
    [s EXCEPT !.launched_process = FALSE, !.process_check_timer = -1]

on_app_closed(s) ==
    enable_inputs([s EXCEPT !.launched_process = FALSE,
                            !.process_check_timer = -1])

check_launched_process(s) ==
    IF ~s.launched_process THEN s
    ELSE IF ~s.proc_alive THEN Tag(on_app_closed(s), "app_closed")
    ELSE s

execute_menu_action(s) ==
    IF s.menu_button_index = 2
    THEN Tag([s EXCEPT !.alive = "closed"], "close")
    ELSE [s EXCEPT !.dialog = "confirm_action"]

remove_current_app(s) ==
    IF s.apps = <<>> THEN s
    ELSE IF s.current_index >= Len(s.apps) THEN Raise(s)
    ELSE Tag([s EXCEPT !.dialog = "remove"], "flow_started")

edit_current_app(s) ==
    IF s.apps = <<>> THEN s
    ELSE IF s.current_index >= Len(s.apps) THEN Raise(s)
    ELSE Tag([s EXCEPT !.dialog = "edit"], "flow_started")

(* The browse scroll of keyPressEvent: its guard and its index arithmetic *)
can_scroll_unlocked(s) == s.apps # <<>>
can_scroll(s) == s.apps # <<>> /\ ~s.is_animating

next_index_clamped(i, n) == IF i + 1 >= n THEN i ELSE i + 1
next_index(i, n) == (i + 1) % n
prev_index(i, n) == (i - 1) % n

keyPressEvent(s, key, rep, launch_ok) ==
    IF ~s.inputs_enabled THEN Tag(s, "inputs_disabled")
    ELSE IF rep /\ ( \/ (s.is_in_menu /\ key \in {"Left", "Right"})
                     \/ key \in {"Up", "Down"} )
    THEN Tag(s, "autorepeat_dropped")
    ELSE CASE key = "Down" ->
                IF ~s.is_in_menu
                THEN [s EXCEPT !.is_in_menu = TRUE, !.menu_button_index = 0]
                ELSE s
           [] key = "Up" ->
                IF s.is_in_menu THEN [s EXCEPT !.is_in_menu = FALSE] ELSE s
           [] key = "Right" ->
                IF s.is_in_menu
                THEN [s EXCEPT !.menu_button_index = (@ + 1) % NumMenuButtons]
                ELSE IF can_scroll(s)
                THEN animate_carousel(
                       Tag([s EXCEPT !.current_index = next_index(@, Len(s.apps))],
                           "scroll_right"), "right")
                ELSE Tag(s, "scroll_dropped")
           [] key = "Left" ->
                IF s.is_in_menu
                THEN [s EXCEPT !.menu_button_index = (@ - 1) % NumMenuButtons]
                ELSE IF can_scroll(s)
                THEN animate_carousel(
                       Tag([s EXCEPT !.current_index = prev_index(@, Len(s.apps))],
                           "scroll_left"), "left")
                ELSE Tag(s, "scroll_dropped")
           [] key = "Return" ->
                IF s.is_in_menu THEN execute_menu_action(s)
                ELSE IF s.apps # <<>> THEN enhanced_launch(s, launch_ok)
                ELSE s
           [] key = "Delete" ->
                IF ~s.is_in_menu /\ s.apps # <<>> THEN remove_current_app(s) ELSE s
           [] key = "E" ->
                IF ~s.is_in_menu /\ s.apps # <<>> THEN edit_current_app(s) ELSE s
           [] key = "Escape" ->
                IF s.is_in_menu THEN [s EXCEPT !.is_in_menu = FALSE]
                ELSE Tag([s EXCEPT !.alive = "closed"], "close")
           [] OTHER -> s

-----------------------------------------------------------------------------
(* integrate_reorder_mode: the handlers that replace the launcher's *)

enhanced_key_press(s, key, rep, launch_ok) ==
    IF rep THEN keyPressEvent(s, key, rep, launch_ok)
    ELSE IF key = "R"
    THEN IF _is_dialog_active(s) \/ s.is_in_menu
         THEN keyPressEvent(Tag(s, "toggle_blocked"), key, rep, launch_ok)
         ELSE IF ~s.is_active
         THEN IF s.apps # <<>> /\ ~s.recently_exited
              THEN _activate_reorder(s)
              ELSE Tag(s, "toggle_blocked")
         ELSE cancel_reorder(s)
    ELSE IF s.is_active
    THEN LET h == CASE key = "Left" -> move_left(s)
                    [] key = "Right" -> move_right(s)
                    [] key = "Return" -> confirm_reorder(s)
                    [] key = "Escape" -> cancel_reorder(s)
                    [] OTHER -> Return(s, FALSE)
         IN  IF h.raised \/ h.ret THEN h
             ELSE keyPressEvent(h, key, rep, launch_ok)
    ELSE LET s1 == IF /\ key = "Return"
                      /\ ~s.is_in_menu
                      /\ ~_is_dialog_active(s)
                   THEN start_long_press(s) ELSE s
         IN  keyPressEvent(s1, key, rep, launch_ok)

enhanced_key_release_ignored(s, key) == s

enhanced_key_release(s, key) ==
    IF key = "Return" /\ ~s.is_active
    THEN IF s.long_press_timer # -1
         THEN Tag(cancel_long_press(s), "lp_cancelled")
         ELSE cancel_long_press(s)
    ELSE s

(* postEvent to QApplication.activeWindow(): the modal dialog if one is     *)
(* open, the launcher window otherwise; the event is delivered after the    *)
(* handler that posted it has returned.                                     *)
simulate_key_press(s, key) ==
    [s EXCEPT !.posted = Append(@, [key |-> key,
                                    win |-> IF s.dialog = "none" THEN "launcher"
                                            ELSE "dialog"])]

handle_button(s, button_index) ==
    IF s.button_cooldown[button_index] > 0 THEN Tag(s, "debounced")
    ELSE LET s1 == [s EXCEPT !.button_cooldown[button_index] = ButtonDebounce]
             cmd(key) == Tag(simulate_key_press(s1, key), "btn_cmd")
         IN  CASE button_index = 0 -> cmd("Return")
               [] button_index = 1 -> cmd("Escape")
               [] button_index = 2 -> cmd("E")
               [] button_index = 3 -> cmd("Delete")
               [] button_index = 9 -> cmd(IF ~s1.is_in_menu THEN "Down" ELSE "Up")
               [] OTHER -> s1

handle_joypad_button(s, button_index) ==
    IF s.last_button_times[button_index] > 0
    THEN Return(Tag(s, "debounced"), FALSE)
    ELSE LET s1 == [s EXCEPT !.last_button_times[button_index] = ButtonDebounce]
         IN  IF button_index = 5
             THEN IF _is_dialog_active(s1) \/ s1.is_in_menu
                  THEN Return(Tag(s1, "toggle_blocked"), FALSE)
                  ELSE IF ~s1.is_active
                  THEN IF s1.apps # <<>> /\ ~s1.recently_exited
                       THEN Return(Tag(_activate_reorder(s1), "btn_cmd"), TRUE)
                       ELSE Return(Tag(s1, "toggle_blocked"), FALSE)
                  ELSE Return(Tag(cancel_reorder(s1), "btn_cmd"), TRUE)
             ELSE Return(s1, FALSE)

enhanced_handle_button(s, button_index) ==
    IF s.recently_exited THEN Tag(s, "cooldown_blocked")
    ELSE IF s.is_active /\ button_index = 0
    THEN Tag(confirm_reorder(s), "btn_cmd")
    ELSE IF s.is_active /\ button_index = 1
    THEN Tag(cancel_reorder(s), "btn_cmd")
    ELSE LET h == handle_joypad_button(s, button_index)
         IN  IF h.raised \/ h.ret THEN h ELSE handle_button(h, button_index)

-----------------------------------------------------------------------------
(* History bookkeeping and the step that installs a handler's result *)

NoSess == [apps |-> <<>>, focus |-> None, pure |-> FALSE, moved |-> FALSE]
NoExit == [kind |-> "none", ms |-> 0]
Event(k, a) == [k |-> k, a |-> a]

Window(kind) == IF kind = "confirm" THEN ConfirmCooldown ELSE ExitCooldown

IsMoveKey(e) == e.k \in {"key", "keyrep"} /\ e.a \in {"Left", "Right"}
IsTimer(e) == e.k \in {"timer", "tick", "proc_exit", "disk"}
IsInput(e) == ~IsTimer(e)

(* The conditions under which a press of Enter is a long-press start *)
LongPressPreconditions ==
    /\ alive = "running" /\ dialog = "none"
    /\ ~is_active /\ apps # <<>> /\ ~is_in_menu /\ ~recently_exited

(* Time advances by Quantum ms; a timer that is due fires before it does. *)
Dec(t) == IF t <= 0 THEN t ELSE IF t > Quantum THEN t - Quantum ELSE 0

(* The readings of the poll that just ran, and per reading the number of    *)
(* commands fired (counted up to 2) while that reading has stayed the same  *)
RunLimit == 2
Count(n, same, fired) ==
    LET m == (IF same THEN n ELSE 0) + (IF fired THEN 1 ELSE 0)
    IN  IF m > RunLimit THEN RunLimit ELSE m
NoPad == [hat |-> Neutral, x |-> 0, y |-> 0, b |-> None,
          hat_n |-> 0, x_n |-> 0, y_n |-> 0, b_n |-> 0]
PadNext(new) ==
    IF ~watch \/ ~new.read.polled THEN pad
    ELSE [hat |-> new.read.hat, x |-> new.read.x, y |-> new.read.y,
          b |-> new.read.b,
          hat_n |-> Count(pad.hat_n, new.read.hat = pad.hat, "hat_cmd" \in new.res),
          x_n |-> Count(pad.x_n, new.read.x = pad.x, "x_cmd" \in new.res),
          y_n |-> Count(pad.y_n, new.read.y = pad.y, "y_cmd" \in new.res),
          b_n |-> Count(pad.b_n, new.read.b = pad.b, "btn_cmd" \in new.res)]

GapNext(new, e) ==
    IF ~watch THEN gap
    ELSE [b \in Buttons |->
            IF new.read.polled /\ new.read.b = b /\ "btn_cmd" \in new.res
            THEN ButtonDebounce
            ELSE IF e.k = "tick" THEN Dec(gap[b]) ELSE gap[b]]

(* What a handler left behind, without the per-call fields *)
Settled(new) == [new EXCEPT !.ret = FALSE, !.raised = FALSE,
                            !.posted = <<>>, !.read = NoRead, !.res = {}]

(* Outcomes that are recorded even when the handler changed nothing *)
Noted == {"scroll_dropped", "anim_refused", "move_refused", "lp_rejected",
          "activate_blocked", "toggle_blocked", "cooldown_blocked",
          "debounced", "autorepeat_dropped", "inputs_disabled", "raised"}

Install(new, e) ==
    /\ (new.apps # apps) => mutations < MaxMutations
    /\ IsInput(e) => budget # 0
    /\ budget' = IF IsInput(e) /\ budget > 0 THEN budget - 1 ELSE budget
    /\ apps' = new.apps
    /\ current_index' = new.current_index
    /\ tiles' = new.tiles
    /\ is_animating' = new.is_animating
    /\ anim_dir' = new.anim_dir
    /\ anim_timer' = new.anim_timer
    /\ is_in_menu' = new.is_in_menu
    /\ menu_button_index' = new.menu_button_index
    /\ inputs_enabled' = new.inputs_enabled
    /\ launched_process' = new.launched_process
    /\ process_check_timer' = new.process_check_timer
    /\ proc_alive' = new.proc_alive
    /\ writable' = new.writable
    /\ dialog' = new.dialog
    /\ is_active' = new.is_active
    /\ selected_index' = new.selected_index
    /\ target_index' = new.target_index
    /\ long_press_timer' = new.long_press_timer
    /\ recently_exited' = new.recently_exited
    /\ exit_cooldown_timer' = new.exit_cooldown_timer
    /\ last_button_times' = new.last_button_times
    /\ button_cooldown' = new.button_cooldown
    /\ axis_cooldown' = new.axis_cooldown
    /\ last_hat' = new.last_hat
    /\ last_axis_state' = new.last_axis_state
    /\ numhats' = new.numhats
    /\ pad' = PadNext(new)
    /\ gap' = GapNext(new, e)
    /\ watch' = watch
    /\ alive' = IF new.raised THEN "crashed" ELSE new.alive
    /\ mutations' = IF new.apps # apps THEN mutations + 1 ELSE mutations
    /\ ev' = e
    /\ res' = new.res
    /\ sess' = IF ~is_active /\ new.is_active
               THEN [apps |-> new.apps, focus |-> current_index, pure |-> TRUE,
                     moved |-> FALSE]
               ELSE IF is_active /\ new.is_active
               THEN [sess EXCEPT !.pure = @ /\ (IsMoveKey(e) \/ IsTimer(e)),
                                 !.moved = @ \/ "move_left" \in new.res
                                             \/ "move_right" \in new.res]
               ELSE IF is_active THEN sess
               ELSE NoSess
    /\ since_exit' = IF is_active /\ ~new.is_active
                     THEN [kind |-> IF "cancelled" \in new.res THEN "cancel"
                                    ELSE "confirm", ms |-> 0]
                     ELSE IF e.k = "tick" /\ since_exit.kind # "none"
                     THEN IF since_exit.ms + Quantum >= Window(since_exit.kind)
                          THEN NoExit
                          ELSE [since_exit EXCEPT !.ms = @ + Quantum]
                     ELSE since_exit
    /\ hold' = IF e = Event("key", "Return") /\ LongPressPreconditions
               THEN 0
               ELSE IF IsInput(e) THEN 0 - 1
               ELSE IF e.k = "tick" /\ hold >= 0
               THEN (IF hold + Quantum >= long_press_duration
                     THEN long_press_duration ELSE hold + Quantum)
               ELSE hold

(* A handler that changed nothing and has nothing noted leaves the state,  *)
(* history included, as it was.                                             *)
Commit(new, e) ==
    IF Settled(new) = Settled(Cur) /\ ~new.raised /\ new.res \cap Noted = {}
       /\ (e.k = "tick" => since_exit.kind = "none" /\ hold < 0)
       /\ (IsInput(e) => hold < 0)
       /\ PadNext(new) = pad
       /\ GapNext(new, e) = gap
    THEN UNCHANGED vars
    ELSE Install(new, e)

-----------------------------------------------------------------------------
(* Initial state: TVLauncher.__init__ then integrate_reorder_mode, with a   *)
(* stored list of 0..MaxN items                                             *)

StartWith(n, inputs, hats, watched) ==
        /\ apps = [i \in 1..n |-> i]
        /\ current_index = 0
        /\ tiles = build_infinite_carousel(
                     [apps |-> [i \in 1..n |-> i], current_index |-> 0,
                      tiles |-> <<>>]).tiles
        /\ is_animating = FALSE
        /\ anim_dir = "none"
        /\ anim_timer = -1
        /\ is_in_menu = FALSE
        /\ menu_button_index = 0
        /\ inputs_enabled = TRUE
        /\ launched_process = FALSE
        /\ process_check_timer = -1
        /\ proc_alive = FALSE
        /\ writable = TRUE
        /\ dialog = "none"
        /\ is_active = FALSE
        /\ selected_index = None
        /\ target_index = None
        /\ long_press_timer = -1
        /\ recently_exited = FALSE
        /\ exit_cooldown_timer = -1
        /\ last_button_times = [b \in Buttons |-> 0]
        /\ button_cooldown = [b \in Buttons |-> 0]
        /\ axis_cooldown = 0
        /\ last_hat = Neutral
        /\ last_axis_state = [x |-> 0, y |-> 0]
        /\ numhats = hats
        /\ pad = NoPad
        /\ gap = [b \in Buttons |-> 0]
        /\ watch = watched
        /\ alive = "running"
        /\ mutations = 0
        /\ budget = inputs
        /\ ev = Event("init", "")
        /\ res = {}
        /\ sess = NoSess
        /\ since_exit = NoExit
        /\ hold = 0 - 1

(* A controller with a directional pad *)
Start(n, inputs) == StartWith(n, inputs, 1, FALSE)

Init == \E n \in 0..MaxN : Start(n, MaxInputs)

-----------------------------------------------------------------------------
(* Actions: one per handler *)

Running == alive = "running"

(* A key-down delivered to the launcher window (not while a modal dialog    *)
(* holds the keyboard); rep is QKeyEvent.isAutoRepeat().                    *)
KeyPress(key, rep) ==
    /\ Running
    /\ dialog = "none"
    /\ \E launch_ok \in BOOLEAN :
         Commit(enhanced_key_press(Cur, key, rep, launch_ok),
                Event(IF rep THEN "keyrep" ELSE "key", key))

KeyRelease ==
    /\ Running
    /\ dialog = "none"
    /\ Commit(enhanced_key_release(Cur, "Return"), Event("release", "Return"))

handle_axis(s, x_axis, y_axis) ==
    IF s.axis_cooldown > 0
    THEN Tag([s EXCEPT !.axis_cooldown = @ - 1], "axis_cooling")
    ELSE LET fire(h, key, tag) ==
                 Tag([simulate_key_press(h, key) EXCEPT
                         !.axis_cooldown = AxisCooldown], tag)
             sx == IF x_axis # 0
                   THEN LET a == IF x_axis > 0 /\ s.last_axis_state.x <= 0
                                 THEN fire(s, "Right", "x_cmd")
                                 ELSE IF x_axis < 0 /\ s.last_axis_state.x >= 0
                                 THEN fire(s, "Left", "x_cmd")
                                 ELSE s
                        IN  [a EXCEPT !.last_axis_state.x = x_axis]
                   ELSE s
         IN  IF y_axis # 0
             THEN LET a == IF y_axis > 0 /\ sx.last_axis_state.y <= 0
                           THEN fire(sx, "Down", "y_cmd")
                           ELSE IF y_axis < 0 /\ sx.last_axis_state.y >= 0
                           THEN fire(sx, "Up", "y_cmd")
                           ELSE sx
                  IN  [a EXCEPT !.last_axis_state.y = y_axis]
             ELSE sx

(* The directional-pad block of poll_joystick *)
poll_hat_level(s, hat) ==
    IF s.numhats = 0 THEN s
    ELSE IF hat # Neutral
    THEN IF s.axis_cooldown > 0 THEN [s EXCEPT !.axis_cooldown = @ - 1]
         ELSE LET s1 == IF hat[1] = 1 THEN simulate_key_press(s, "Right")
                        ELSE IF hat[1] = 0 - 1 THEN simulate_key_press(s, "Left")
                        ELSE s
                  s2 == IF hat[2] = 1 THEN simulate_key_press(s1, "Up")
                        ELSE IF hat[2] = 0 - 1 THEN simulate_key_press(s1, "Down")
                        ELSE s1
              IN  Tag([s2 EXCEPT !.axis_cooldown = AxisCooldown,
                                 !.last_hat = hat], "hat_cmd")
    ELSE [s EXCEPT !.last_hat = hat, !.axis_cooldown = 0]

poll_hat(s, hat) ==
    IF s.numhats = 0 THEN s
    ELSE IF hat # Neutral
    THEN IF s.axis_cooldown > 0 THEN [s EXCEPT !.axis_cooldown = @ - 1]
         ELSE IF hat # s.last_hat
         THEN LET s1 == IF hat[1] = 1 THEN simulate_key_press(s, "Right")
                        ELSE IF hat[1] = 0 - 1 THEN simulate_key_press(s, "Left")
                        ELSE s
                  s2 == IF hat[2] = 1 THEN simulate_key_press(s1, "Up")
                        ELSE IF hat[2] = 0 - 1 THEN simulate_key_press(s1, "Down")
                        ELSE s1
              IN  Tag([s2 EXCEPT !.axis_cooldown = AxisCooldown,
                                 !.last_hat = hat], "hat_cmd")
         ELSE s
    ELSE [s EXCEPT !.last_hat = hat, !.axis_cooldown = 0]

(* The posted keys reach their windows in the order they were posted; a key *)
(* posted to the dialog is the dialog's.                                    *)
RECURSIVE Deliver(_, _, _)
Deliver(s, q, launch_ok) ==
    IF q = <<>> \/ s.raised THEN s
    ELSE Deliver(IF Head(q).win = "launcher"
                 THEN enhanced_key_press(s, Head(q).key, FALSE, launch_ok)
                 ELSE Tag(s, "to_dialog"),
                 Tail(q), launch_ok)

(* One poll of the controller that reads hat, the two stick axes and        *)
(* button b (None: no button pressed): the pad block, the stick block and   *)
(* the button handler, whose exceptions poll_joystick catches, then the     *)
(* delivery of the keys it posted.                                          *)
poll_joystick(s, hat, x_axis, y_axis, b, launch_ok) ==
    LET s0 == [s EXCEPT !.read = [polled |-> TRUE, hat |-> hat, x |-> x_axis,
                                  y |-> y_axis, b |-> b]]
    IN  IF ~s0.inputs_enabled THEN Tag(s0, "inputs_disabled")
        ELSE LET h1 == poll_hat(s0, hat)
                 h2 == IF x_axis # 0 \/ y_axis # 0
                       THEN handle_axis(h1, x_axis, y_axis)
                       ELSE [h1 EXCEPT !.axis_cooldown = 0,
                                       !.last_axis_state = [x |-> 0, y |-> 0]]
                 h3 == IF b # None
                       THEN [enhanced_handle_button(h2, b) EXCEPT !.raised = FALSE]
                       ELSE h2
             IN  Deliver([h3 EXCEPT !.posted = <<>>], h3.posted, launch_ok)

JoyPoll(hat, x_axis, y_axis, b) ==
    /\ Running
    /\ \E launch_ok \in IF b = 0 THEN BOOLEAN ELSE {TRUE} :
         Commit(poll_joystick(Cur, hat, x_axis, y_axis, b, launch_ok),
                IF b # None THEN Event("button", ButtonName(b))
                ELSE Event("poll", ""))

(* A poll that reads button b pressed and the pad and the stick at rest *)
JoyButton(b) == JoyPoll(Neutral, 0, 0, b)

LongPressTimeout ==
    /\ Running
    /\ long_press_timer = 0
    /\ Commit(_activate_reorder(Cur), Event("timer", "long_press"))

ExitCooldownTimeout ==
    /\ Running
    /\ exit_cooldown_timer = 0
    /\ Commit([_clear_exit_cooldown(Cur) EXCEPT !.exit_cooldown_timer = -1],
              Event("timer", "exit_cooldown"))

AnimationFinished ==
    /\ Running
    /\ anim_timer = 0
    /\ Commit(reposition_tiles(Cur, anim_dir), Event("timer", "animation"))

ProcessCheckTimeout ==
    /\ Running
    /\ process_check_timer = 0
    /\ LET h == check_launched_process(Cur)
       IN  Commit(IF h.launched_process
                  THEN [h EXCEPT !.process_check_timer = ProcessCheckInterval]
                  ELSE h,
                  Event("timer", "process_check"))

ProcessExit ==
    /\ Running
    /\ launched_process /\ proc_alive
    /\ Commit([Cur EXCEPT !.proc_alive = FALSE], Event("proc_exit", ""))

(* The mouse click on "+ Add App": add_app up to dialog.exec() *)
add_app(s) == Tag([s EXCEPT !.dialog = "add"], "flow_started")

AddAppClick ==
    /\ Running
    /\ dialog = "none"
    /\ Commit(add_app(Cur), Event("click", "add"))

Edited(item) == IF item < 0 THEN item ELSE 0 - item
NewItem(seq) ==
    CHOOSE k \in 1..(Len(seq) + 1) :
        /\ \A i \in 1..Len(seq) : seq[i] # k /\ seq[i] # 0 - k
        /\ \A j \in 1..(k - 1) : \E i \in 1..Len(seq) : seq[i] = j \/ seq[i] = 0 - j

(* The rest of the handler that opened the dialog, run when exec() returns; *)
(* accepted: Yes / Save / OK with valid data.                               *)
dialog_closed(s, accepted) ==
    LET s1 == [s EXCEPT !.dialog = "none"]
    IN  CASE s.dialog = "remove" ->
               IF accepted /\ s1.current_index >= Len(s1.apps)
               THEN Raise(s1)
               ELSE LET s2 == IF accepted
                              THEN [s1 EXCEPT !.apps = Pop(@, s1.current_index)]
                              ELSE s1
                        s3 == IF s2.current_index >= Len(s2.apps) /\ s2.apps # <<>>
                              THEN [s2 EXCEPT !.current_index = Len(s2.apps) - 1]
                              ELSE IF s2.apps = <<>>
                              THEN [s2 EXCEPT !.current_index = 0]
                              ELSE s2
                        s4 == save_config(s3)
                    IN  IF s4.raised THEN s4 ELSE build_infinite_carousel(s4)
          [] s.dialog = "edit" ->
               IF ~accepted THEN s1
               ELSE IF s1.current_index >= Len(s1.apps) THEN Raise(s1)
               ELSE LET s2 == save_config(
                               [s1 EXCEPT !.apps[s1.current_index + 1] = Edited(@)])
                    IN  IF s2.raised THEN s2 ELSE build_infinite_carousel(s2)
          [] s.dialog = "add" ->
               IF ~accepted THEN s1
               ELSE LET s2 == save_config([s1 EXCEPT !.apps = Append(@, NewItem(@))])
                    IN  IF s2.raised THEN s2 ELSE build_infinite_carousel(s2)
          [] s.dialog = "launch_error" -> enable_inputs(s1)
          [] s.dialog = "confirm_action" ->
               IF accepted THEN Tag([s1 EXCEPT !.alive = "closed"], "close") ELSE s1
          [] OTHER -> s1

DialogClose(accepted) ==
    /\ Running
    /\ dialog # "none"
    /\ (dialog = "add" /\ accepted) => Len(apps) < MaxN
    /\ Commit(dialog_closed(Cur, accepted),
              Event("dialog", IF accepted THEN "accept" ELSE "reject"))

(* The config file becomes unwritable (disk full, file locked or made       *)
(* read-only) or writable again                                             *)
DiskChange ==
    /\ Running
    /\ Commit([Cur EXCEPT !.writable = ~@], Event("disk", ""))

Tick ==
    /\ Running
    /\ anim_timer # 0 /\ long_press_timer # 0
    /\ exit_cooldown_timer # 0 /\ process_check_timer # 0
    /\ Commit([Cur EXCEPT !.anim_timer = Dec(@),
                          !.long_press_timer = Dec(@),
                          !.exit_cooldown_timer = Dec(@),
                          !.process_check_timer = Dec(@),
                          !.last_button_times = [b \in Buttons |-> Dec(@[b])],
                          !.button_cooldown = [b \in Buttons |-> Dec(@[b])]],
              Event("tick", ""))

Next ==
    \/ \E key \in Keys, rep \in BOOLEAN : KeyPress(key, rep)
    \/ KeyRelease
    \/ \E hat \in Hats, x \in Axis, y \in Axis, b \in Buttons \cup {None} :
           JoyPoll(hat, x, y, b)
    \/ LongPressTimeout
    \/ ExitCooldownTimeout
    \/ AnimationFinished
    \/ ProcessCheckTimeout
    \/ ProcessExit
    \/ AddAppClick
    \/ \E accepted \in BOOLEAN : DialogClose(accepted)
    \/ DiskChange
    \/ Tick

Spec == Init /\ [][Next]_vars

-----------------------------------------------------------------------------
(* The same handlers under narrower environments.  Each keeps every timer   *)
(* and restricts only which inputs the user gives.                          *)

(* Browsing: scrolling, the menu row, and toggling reorder with R *)
NextCarousel ==
    \/ \E key \in {"Left", "Right"}, rep \in BOOLEAN : KeyPress(key, rep)
    \/ \E key \in {"Up", "Down", "R"} : KeyPress(key, FALSE)
    \/ ExitCooldownTimeout
    \/ AnimationFinished
    \/ Tick

SpecCarousel == Init /\ [][NextCarousel]_vars

(* A reorder session: toggle, moves, confirm, cancel from keyboard and      *)
(* controller, and the remove flow                                          *)
NextReorder ==
    \/ \E key \in {"Left", "Right", "R", "Delete"} : KeyPress(key, FALSE)
    \/ \E key \in {"Return", "Escape"} : is_active /\ KeyPress(key, FALSE)
    \/ \E b \in {0, 1} : is_active /\ JoyButton(b)
    \/ \E accepted \in BOOLEAN : DialogClose(accepted)
    \/ ExitCooldownTimeout
    \/ AnimationFinished
    \/ Tick

SpecReorder == Init /\ [][NextReorder]_vars

(* Moving the target of one session, which is never left *)
NextMoves ==
    \/ ~is_active /\ KeyPress("R", FALSE)
    \/ \E key \in {"Left", "Right"} : KeyPress(key, FALSE)
    \/ AnimationFinished
    \/ Tick

SpecMoves == Init /\ [][NextMoves]_vars

(* Entering reorder: long press, toggles, menu, dialogs, launching *)
InitSmall == \E n \in 0..SmallN : Start(n, Unlimited)

NextActivation ==
    \/ \E key \in {"R", "Return", "Escape", "Down", "Up", "Delete"} :
           KeyPress(key, FALSE)
    \/ KeyRelease
    \/ JoyButton(5)
    \/ LongPressTimeout
    \/ ExitCooldownTimeout
    \/ ProcessCheckTimeout
    \/ ProcessExit
    \/ \E accepted \in BOOLEAN : DialogClose(accepted)
    \/ Tick

SpecActivation == InitSmall /\ [][NextActivation]_vars

(* The directional pad and the analog stick, on controllers with and        *)
(* without a pad, over an empty list and over one of PadN items             *)
InitPad ==
    \E n \in {0, PadN}, hats \in {0, 1} : StartWith(n, Unlimited, hats, TRUE)

PadHats == {Neutral, <<1, 0>>, <<0 - 1, 0>>, <<1, 0 - 1>>}

NextPad ==
    \/ \E hat \in PadHats, x \in Axis, y \in {0, 1} : JoyPoll(hat, x, y, None)
    \/ AnimationFinished
    \/ Tick

SpecPad == InitPad /\ [][NextPad]_vars

(* The controller buttons, with the keyboard's Enter beside them *)
NextButtons ==
    \/ \E b \in Buttons : JoyButton(b)
    \/ KeyPress("Return", FALSE)
    \/ LongPressTimeout
    \/ ExitCooldownTimeout
    \/ ProcessCheckTimeout
    \/ ProcessExit
    \/ \E accepted \in BOOLEAN : DialogClose(accepted)
    \/ Tick

InitButtons == \E n \in 0..PadN : StartWith(n, MaxPresses, 1, TRUE)

SpecButtons == InitButtons /\ [][NextButtons]_vars

(* Confirm and cancel inputs around a session: Enter and Escape, pressed    *)
(* or repeating, and the buttons A, B and RB                                *)
NextConfirm ==
    \/ \E key \in {"Return", "Escape"}, rep \in BOOLEAN : KeyPress(key, rep)
    \/ KeyPress("R", FALSE)
    \/ \E b \in {0, 1, 5} : JoyButton(b)
    \/ LongPressTimeout
    \/ ExitCooldownTimeout
    \/ ProcessCheckTimeout
    \/ ProcessExit
    \/ \E accepted \in BOOLEAN : DialogClose(accepted)
    \/ Tick

SpecConfirm == InitSmall /\ [][NextConfirm]_vars

(* A reorder session whose confirm may fail to persist *)
InitPersist == \E n \in 0..SmallN : Start(n, MaxPresses)

NextPersist ==
    \/ \E key \in {"Left", "Right", "R"} : KeyPress(key, FALSE)
    \/ \E key \in {"Return", "Escape"} : is_active /\ KeyPress(key, FALSE)
    \/ \E b \in {0, 1} : is_active /\ JoyButton(b)
    \/ ExitCooldownTimeout
    \/ AnimationFinished
    \/ DiskChange
    \/ Tick

SpecPersist == InitPersist /\ [][NextPersist]_vars

(* The same sessions with the event loop's guarantees: time passes, and a   *)
(* single-shot timer that is due fires.  Nothing obliges the user to press  *)
(* anything or the disk to change.                                          *)
SpecCooldown ==
    /\ SpecPersist
    /\ WF_vars(Tick)
    /\ WF_vars(ExitCooldownTimeout)
    /\ WF_vars(AnimationFinished)

(* Launching and coming back, with the event loop's guarantees: time        *)
(* passes and a timer that is due fires.                                    *)
InitHandOff == \E n \in 0..PadN : Start(n, Unlimited)

NextHandOff ==
    \/ \E key \in {"Return", "Escape", "R"} : KeyPress(key, FALSE)
    \/ KeyRelease
    \/ JoyButton(0)
    \/ LongPressTimeout
    \/ ExitCooldownTimeout
    \/ ProcessCheckTimeout
    \/ ProcessExit
    \/ \E accepted \in BOOLEAN : DialogClose(accepted)
    \/ Tick

SpecHandOff ==
    /\ InitHandOff /\ [][NextHandOff]_vars
    /\ WF_vars(Tick)
    /\ WF_vars(LongPressTimeout)
    /\ WF_vars(ExitCooldownTimeout)
    /\ WF_vars(ProcessCheckTimeout)

(* A reorder session and the remove flow with the event loop's guarantees:  *)
(* time passes and a timer or an animation that is due calls back.          *)
SpecLock ==
    /\ SpecReorder
    /\ WF_vars(Tick)
    /\ WF_vars(ExitCooldownTimeout)
    /\ WF_vars(AnimationFinished)

-----------------------------------------------------------------------------
(* Properties *)

N == Len(apps)
ScrollKey(e) == e.k \in {"key", "keyrep"} /\ e.a \in {"Left", "Right"}
Browse == Running /\ dialog = "none" /\ inputs_enabled /\ ~is_in_menu /\ ~is_active

(* The window of item indices centred on index c, slot by slot *)
Window9(c) == [i \in 1..max_visible_tiles |-> (c + (i - 1) - center_tile_index) % N]
Bound == [i \in 1..Len(tiles) |-> tiles[i].app_index]
FocusedSlots == {i \in 1..Len(tiles) : tiles[i].is_focused}

(* C1: while a slide transition is in flight, a Left/Right key in browse    *)
(* mode changes neither FocusIndex nor the running transition nor the       *)
(* slots (it is dropped), and the completion of the transition does not     *)
(* move FocusIndex either: the index advanced once, when the scroll began.  *)
C1_AnimationExclusivity ==
    [][ /\ (Browse /\ is_animating /\ ScrollKey(ev'))
           => /\ current_index' = current_index
              /\ is_animating' /\ anim_timer' = anim_timer /\ anim_dir' = anim_dir
              /\ tiles' = tiles
              /\ "scroll_dropped" \in res'
        /\ (ev' = Event("timer", "animation")) => current_index' = current_index
      ]_vars

C1_Witness ==
    /\ ev = Event("key", "Right") /\ "scroll_dropped" \in res
    /\ is_animating /\ anim_timer > 0 /\ ~is_active /\ ~is_in_menu /\ N >= 2

(* C2: after a completed transition slot i is bound to item                 *)
(* (FocusIndex + i - 4) mod N and exactly the centre slot is focused.       *)
C2_SlotInvariant ==
    (ev = Event("timer", "animation") /\ "repositioned" \in res)
        => /\ Bound = Window9(current_index)
           /\ FocusedSlots = {center_tile_index + 1}

(* C3: a Left/Right key in browse mode with a non-empty list and no         *)
(* transition in flight is accepted and moves FocusIndex by one step        *)
(* circularly: right from N-1 gives 0, left from 0 gives N-1; the list is   *)
(* not touched.                                                             *)
C3_Circularity ==
    [][ (Browse /\ ~is_animating /\ N > 0 /\ ScrollKey(ev'))
           => /\ apps' = apps
              /\ ev'.a = "Right" =>
                   /\ "scroll_right" \in res'
                   /\ current_index' = IF current_index = N - 1 THEN 0
                                       ELSE current_index + 1
              /\ ev'.a = "Left" =>
                   /\ "scroll_left" \in res'
                   /\ current_index' = IF current_index = 0 THEN N - 1
                                       ELSE current_index - 1
      ]_vars

C3_Witness ==
    /\ ev = Event("key", "Left") /\ "scroll_left" \in res
    /\ ~is_active /\ N >= 3 /\ current_index = N - 1

ConfirmStep(e) ==
    is_active /\ Running
    /\ \/ e = Event("key", "Return") /\ dialog = "none"
       \/ e = Event("button", "A") /\ inputs_enabled /\ ~recently_exited

(* C4: confirming an Active session with selected s and target t, s # t,    *)
(* moves the item at s to index t, keeps the other items in their relative  *)
(* order, keeps the length, and sets FocusIndex to t.                       *)
C4_CommitCorrectness ==
    [][ (ConfirmStep(ev') /\ selected_index # target_index)
           => /\ "confirmed_moved" \in res'
              /\ ~is_active'
              /\ Len(apps') = Len(apps)
              /\ selected_index < Len(apps) /\ target_index < Len(apps)
              /\ apps'[target_index + 1] = apps[selected_index + 1]
              /\ Pop(apps', target_index) = Pop(apps, selected_index)
              /\ current_index' = target_index
      ]_vars

(* C5: a session that saw only move-left and move-right commands and is     *)
(* then cancelled leaves the list as it was at activation and FocusIndex    *)
(* at the index it was activated on.                                        *)
C5_CancelRestores ==
    ("cancelled" \in res /\ sess.pure)
        => /\ apps = sess.apps
           /\ current_index = sess.focus
           /\ ~is_active

C5_Witness ==
    /\ "cancelled" \in res /\ sess.pure /\ sess.moved
    /\ N > LinearLimit /\ current_index = sess.focus /\ is_animating

(* C6: with N <= 5 a reorder move keeps the target within [0, N-1], a move  *)
(* at the end of the list is refused and leaves the target where it is, and *)
(* no move starts a slide transition.                                       *)
C6_SmallListClamp ==
    [][ (is_active /\ Running /\ dialog = "none" /\ N <= LinearLimit
         /\ ev'.k = "key" /\ ev'.a \in {"Left", "Right"})
           => /\ target_index' \in 0..(N - 1)
              /\ (ev'.a = "Left" /\ target_index = 0)
                   => (target_index' = target_index /\ "move_refused" \in res')
              /\ (ev'.a = "Right" /\ target_index = N - 1)
                   => (target_index' = target_index /\ "move_refused" \in res')
              /\ "anim_started" \notin res'
      ]_vars

(* C7: with N > 5 a reorder move sets the target to (target -+ 1) mod N and *)
(* starts a slide transition in the direction of the move.                  *)
C7_LargeListWrap ==
    [][ (is_active /\ Running /\ dialog = "none" /\ N > LinearLimit
         /\ ev'.k = "key" /\ ev'.a \in {"Left", "Right"})
           => /\ ev'.a = "Left" =>
                   /\ target_index' = IF target_index = 0 THEN N - 1
                                      ELSE target_index - 1
                   /\ "anim_started" \in res' /\ anim_dir' = "left"
              /\ ev'.a = "Right" =>
                   /\ target_index' = IF target_index = N - 1 THEN 0
                                      ELSE target_index + 1
                   /\ "anim_started" \in res' /\ anim_dir' = "right"
              /\ is_animating' /\ anim_timer' = AnimDuration
      ]_vars

(* C8: for 1000 ms after a confirm and for 500 ms after a cancel every      *)
(* attempt to re-enter reorder mode is rejected: the machine is Inactive    *)
(* and no long press is pending.                                            *)
C8_CooldownGating ==
    since_exit.kind # "none" => (~is_active /\ long_press_timer = 0 - 1)

(* C9: once Enter, pressed under the long-press preconditions, has been     *)
(* held for the long-press duration with no other input, and the timer is   *)
(* not still due, and the list is still non-empty with no menu and no       *)
(* dialog, the machine is Active with selected = target = FocusIndex.       *)
C9_LongPressActivation ==
    (/\ Running /\ hold >= long_press_duration /\ long_press_timer # 0
     /\ apps # <<>> /\ ~is_in_menu /\ dialog = "none")
        => /\ is_active
           /\ selected_index = current_index
           /\ target_index = current_index

EntryAttempt(e) ==
    e \in {Event("key", "Return"), Event("key", "R"), Event("button", "RB"),
           Event("timer", "long_press")}

(* C10: the machine leaves Inactive only with a non-empty list, outside     *)
(* the menu and with no modal dialog; an entry attempt made otherwise       *)
(* raises nothing and leaves the active flag, selected, target, the exit    *)
(* cooldown and the long-press timer as they were (the timer that fired is  *)
(* stopped).                                                                *)
C10_ActivationPreconditions ==
    [][ /\ (~is_active /\ is_active')
           => (apps # <<>> /\ ~is_in_menu /\ dialog = "none")
        /\ (EntryAttempt(ev') /\ ~is_active
            /\ (apps = <<>> \/ is_in_menu \/ dialog # "none"))
           => /\ ~is_active'
              /\ selected_index' = selected_index
              /\ target_index' = target_index
              /\ recently_exited' = recently_exited
              /\ exit_cooldown_timer' = exit_cooldown_timer
              /\ long_press_timer' = IF ev' = Event("timer", "long_press")
                                     THEN 0 - 1 ELSE long_press_timer
              /\ "raised" \notin res'
      ]_vars

C10_Witness ==
    /\ ev = Event("timer", "long_press") /\ "activate_blocked" \in res
    /\ is_in_menu /\ apps # <<>> /\ ~is_active /\ long_press_timer = 0 - 1

UserInput(e) == e.k \in {"key", "keyrep", "release", "button", "poll"}

(* C11: while a modal dialog is open, no keyboard event and no controller   *)
(* poll changes FocusIndex, the reorder session (active flag, selected,     *)
(* target) or the item list.                                                *)
C11_ModalBlocking ==
    [][ (dialog # "none" /\ UserInput(ev'))
           => /\ current_index' = current_index
              /\ is_active' = is_active
              /\ selected_index' = selected_index
              /\ target_index' = target_index
              /\ apps' = apps
      ]_vars

(* C12: while reorder is Active a Left/Right key, pressed or repeating, is  *)
(* the reorder machine's alone: it performs no browse scroll, and with      *)
(* N <= 5 FocusIndex stays where it was when the session was activated.     *)
C12_OneConsumer ==
    [][ /\ (is_active /\ Running /\ dialog = "none" /\ IsMoveKey(ev'))
           => /\ "scroll_left" \notin res' /\ "scroll_right" \notin res'
              /\ (N <= LinearLimit => current_index' = current_index)
        /\ (is_active' /\ Len(apps') <= LinearLimit)
           => current_index' = sess'.focus
      ]_vars

ConfirmOrCancel(e) ==
    \/ e.k \in {"key", "keyrep"} /\ e.a \in {"Return", "Escape"}
    \/ e.k = "button" /\ e.a \in {"A", "B"}

(* C13: while reorder is Active, Enter and button A launch nothing and      *)
(* Escape and button B do not close the application.                        *)
C13_Reinterpretation ==
    [][ (is_active /\ Running /\ ConfirmOrCancel(ev'))
           => /\ res' \cap {"launch_ok", "launch_failed", "close"} = {}
              /\ launched_process' = launched_process
              /\ alive' # "closed"
      ]_vars

(* C14: whenever reorder is Active, selected_index and target_index are     *)
(* positions of the current list.                                           *)
C14_SessionIndexValidity ==
    is_active => /\ selected_index \in 0..(N - 1)
                 /\ target_index \in 0..(N - 1)

(* C15: while reorder is Active no add, edit or remove flow starts, and     *)
(* the list changes only by a confirm.                                      *)
C15_NoOverlappingMutation ==
    [][ is_active
           => /\ "flow_started" \notin res'
              /\ (apps' # apps => "confirmed_moved" \in res')
      ]_vars

(* C16: while inputs_enabled is false no keyboard event and no controller   *)
(* poll changes FocusIndex, the menu, the list or the reorder machine, its  *)
(* long-press timer included.                                               *)
C16_InputSuppression ==
    [][ (~inputs_enabled /\ Running /\ UserInput(ev'))
           => /\ current_index' = current_index
              /\ is_in_menu' = is_in_menu
              /\ menu_button_index' = menu_button_index
              /\ apps' = apps
              /\ is_active' = is_active
              /\ selected_index' = selected_index
              /\ target_index' = target_index
              /\ long_press_timer' = long_press_timer
      ]_vars

Polled(e, b) == e = Event("button", ButtonName(b))

(* C17: a poll that reads a button pressed less than 300 ms after a poll    *)
(* of the same button resolved to a command resolves to no command and      *)
(* changes nothing of the engine; and a poll of one button leaves the       *)
(* debounce entries of every other button alone.                            *)
C17_ButtonDebounce ==
    [][ \A b \in Buttons :
          (Running /\ Polled(ev', b))
             => /\ gap[b] > 0
                   => /\ "btn_cmd" \notin res'
                      /\ current_index' = current_index
                      /\ is_in_menu' = is_in_menu
                      /\ menu_button_index' = menu_button_index
                      /\ apps' = apps
                      /\ is_active' = is_active
                      /\ selected_index' = selected_index
                      /\ target_index' = target_index
                      /\ dialog' = dialog
                      /\ inputs_enabled' = inputs_enabled
                      /\ alive' = alive
                /\ \A c \in Buttons \ {b} :
                      /\ last_button_times'[c] = last_button_times[c]
                      /\ button_cooldown'[c] = button_cooldown[c]
      ]_vars

(* C18: over the polls of one physical press, every one of which reads the  *)
(* button pressed, at most one command is resolved.                         *)
C18_OneCommandPerPress ==
    pad.b # None => pad.b_n <= 1

(* C19: a directional-pad command fires only on a poll whose pad reading    *)
(* differs from the recorded one (last_hat), and over consecutive polls     *)
(* that read the same pad state it fires on at most one of them.            *)
C19_HatEdgeTriggering ==
    [][ (Running /\ ev'.k = "poll")
           => /\ "hat_cmd" \in res' => pad'.hat # last_hat
              /\ pad'.hat_n <= 1
      ]_vars

C19_Witness ==
    /\ ev.k = "poll" /\ pad.hat # Neutral /\ pad.hat_n = 1
    /\ "hat_cmd" \notin res /\ axis_cooldown = 0 /\ last_hat = pad.hat
    /\ pad.x # 0

(* C20: a poll that reads both stick axes in the dead zone fires no stick   *)
(* command; a stick command fires only on a sign different from the         *)
(* recorded one; and over consecutive polls that read an axis beyond the    *)
(* threshold on the same side exactly one command fires for it: never two,  *)
(* and none only as long as the cooldown holds the poll back.               *)
C20_AnalogStick ==
    [][ (Running /\ inputs_enabled /\ ev'.k = "poll")
           => /\ (pad'.x = 0 /\ pad'.y = 0)
                   => ("x_cmd" \notin res' /\ "y_cmd" \notin res')
              /\ "x_cmd" \in res' => pad'.x # last_axis_state.x
              /\ "y_cmd" \in res' => pad'.y # last_axis_state.y
              /\ pad'.x_n <= 1 /\ pad'.y_n <= 1
              /\ (pad'.x # 0 /\ pad'.x_n = 0) => "axis_cooling" \in res'
              /\ (pad'.y # 0 /\ pad'.y_n = 0) => "axis_cooling" \in res'
      ]_vars

DirectionKey(e) == e.a \in {"Left", "Right", "Up", "Down"}

(* C21: an auto-repeat key-down of Left, Right, Up or Down produces no      *)
(* command in browse, menu or reorder mode: FocusIndex, the menu (row and   *)
(* selection) and the reorder target stay as they were and no transition    *)
(* starts.                                                                  *)
C21_AutoRepeatDropping ==
    [][ (Running /\ dialog = "none" /\ ev'.k = "keyrep" /\ DirectionKey(ev'))
           => /\ current_index' = current_index
              /\ is_in_menu' = is_in_menu
              /\ menu_button_index' = menu_button_index
              /\ target_index' = target_index
              /\ "anim_started" \notin res'
              /\ is_animating' = is_animating
      ]_vars

EntryPoint(e) ==
    \/ e.k \in {"key", "keyrep"}
         /\ e.a \in {"Left", "Right", "Return", "Delete", "E", "R", "Escape"}
    \/ e.k \in {"release", "button"}
    \/ e \in {Event("timer", "long_press"), Event("timer", "animation")}

(* C24: with an empty list every entry point (scroll, launch, edit, delete, *)
(* long-press start and timeout, toggle, reorder move, confirm and cancel,  *)
(* and the completion of a transition that began before the list became     *)
(* empty) raises nothing, leaves the list, FocusIndex and the slots as they *)
(* were, activates no session and starts no transition or flow.             *)
C24_EmptyStoreGuard ==
    [][ (apps = <<>> /\ Running /\ EntryPoint(ev'))
           => /\ "raised" \notin res' /\ alive' # "crashed"
              /\ apps' = apps /\ current_index' = current_index
              /\ tiles' = tiles
              /\ (is_active' => is_active)
              /\ long_press_timer' \in {long_press_timer, 0 - 1}
              /\ res' \cap {"anim_started", "flow_started", "launch_ok",
                            "launch_failed"} = {}
      ]_vars

(* C25: when persisting fails during a confirm with selected # target, the  *)
(* list keeps the moved order and the confirm still completes: the machine  *)
(* is Inactive with selected and target cleared, and the exit cooldown is   *)
(* running.                                                                 *)
C25_PersistFailure ==
    [][ (ConfirmStep(ev') /\ ~writable /\ selected_index # target_index
         /\ selected_index < N /\ target_index < N)
           => /\ apps'[target_index + 1] = apps[selected_index + 1]
              /\ Pop(apps', target_index) = Pop(apps, selected_index)
              /\ alive' = "running"
              /\ ~is_active'
              /\ selected_index' = None /\ target_index' = None
              /\ recently_exited' /\ exit_cooldown_timer' > 0
      ]_vars

(* C26: a launch that fails tracks no process and leaves the list,          *)
(* FocusIndex, the reorder active flag and the exit-cooldown flag as they   *)
(* were before the launch command; closing its error message leaves them    *)
(* alone too, with inputs enabled and still no process tracked.             *)
C26_LaunchFailure ==
    [][ /\ "launch_failed" \in res'
           => /\ ~launched_process'
              /\ apps' = apps /\ current_index' = current_index
              /\ is_active' = is_active
              /\ recently_exited' = recently_exited
        /\ (dialog = "launch_error" /\ ev'.k = "dialog")
           => /\ inputs_enabled' /\ ~launched_process'
              /\ apps' = apps /\ current_index' = current_index
              /\ is_active' = is_active
              /\ recently_exited' = recently_exited
      ]_vars

ToggleRequest(e) ==
    \/ e = Event("key", "R")
    \/ e = Event("button", "RB") /\ inputs_enabled /\ last_button_times[5] = 0
    \/ e = Event("timer", "long_press")

(* C27: the exit-cooldown flag, set by a confirm or a cancel, is eventually *)
(* cleared as long as the program runs; and with the flag clear an          *)
(* activation request made while Inactive with a non-empty list, no menu    *)
(* and no dialog makes the machine Active.                                  *)
C27_CooldownEnds ==
    /\ (recently_exited /\ Running) ~> (~recently_exited \/ ~Running)
    /\ [][ (/\ Running /\ ~recently_exited /\ ~is_active
            /\ apps # <<>> /\ ~is_in_menu /\ dialog = "none"
            /\ ToggleRequest(ev'))
              => (is_active' /\ "activated" \in res')
         ]_vars

(* C28: a successful launch disables inputs and tracks the process with a   *)
(* periodic check armed; the check that finds the process gone enables      *)
(* inputs, clears the tracking and stops the timer; inputs are disabled     *)
(* only while a process is tracked and a check is pending; and once the     *)
(* process is gone inputs are eventually enabled again.                     *)
C28_HandOffRoundTrip ==
    /\ [][ /\ "launch_ok" \in res'
              => /\ ~inputs_enabled' /\ launched_process'
                 /\ process_check_timer' = ProcessCheckInterval
           /\ (ev' = Event("timer", "process_check") /\ launched_process
               /\ ~proc_alive)
              => /\ inputs_enabled' /\ ~launched_process'
                 /\ process_check_timer' = 0 - 1
           /\ ~inputs_enabled' => (launched_process' /\ process_check_timer' >= 0)
         ]_vars
    /\ (Running /\ ~inputs_enabled /\ ~proc_alive) ~> (inputs_enabled \/ ~Running)

C28_Witness ==
    /\ ev = Event("timer", "process_check") /\ "app_closed" \in res
    /\ inputs_enabled /\ ~launched_process /\ ~proc_alive
    /\ process_check_timer = 0 - 1

(* The toggle resolved to a command: the R key, or a poll that reads RB     *)
(* with inputs enabled and RB's debounce window over                        *)
ToggleCommand(e) ==
    \/ e = Event("key", "R")
    \/ e = Event("button", "RB") /\ inputs_enabled /\ last_button_times[5] = 0

(* C29: a toggle issued while Inactive with a non-empty list, no menu, no   *)
(* dialog and no cooldown makes the machine Active in that step, with       *)
(* selected = target = FocusIndex and no long press pending; a toggle       *)
(* issued while Active cancels the session in that step: Inactive, indices  *)
(* cleared, FocusIndex back on selected_index, 500 ms cooldown running.     *)
C29_ToggleCommand ==
    [][ /\ (Running /\ ToggleCommand(ev') /\ ~is_active /\ apps # <<>>
            /\ ~is_in_menu /\ dialog = "none" /\ ~recently_exited)
           => /\ is_active'
              /\ selected_index' = current_index
              /\ target_index' = current_index
              /\ current_index' = current_index
              /\ long_press_timer' = 0 - 1
        /\ (Running /\ ToggleCommand(ev') /\ is_active)
           => /\ ~is_active' /\ "cancelled" \in res'
              /\ selected_index' = None /\ target_index' = None
              /\ current_index' = selected_index
              /\ recently_exited' /\ exit_cooldown_timer' = ExitCooldown
      ]_vars

(* C30: releasing Enter while the long-press timer is pending stops the     *)
(* timer and changes nothing else: the machine stays Inactive and the       *)
(* list, FocusIndex, the slots, the menu, the exit cooldown and the launch  *)
(* state are as before; a stopped timer is started again only by a new      *)
(* long-press start, and the timeout runs only for a timer that is due.     *)
C30_LongPressRelease ==
    [][ /\ (Running /\ ev' = Event("release", "Return") /\ ~is_active
            /\ long_press_timer >= 0)
           => /\ long_press_timer' = 0 - 1
              /\ ~is_active'
              /\ selected_index' = selected_index /\ target_index' = target_index
              /\ apps' = apps /\ current_index' = current_index /\ tiles' = tiles
              /\ recently_exited' = recently_exited
              /\ exit_cooldown_timer' = exit_cooldown_timer
              /\ is_in_menu' = is_in_menu /\ dialog' = dialog
              /\ inputs_enabled' = inputs_enabled
              /\ launched_process' = launched_process
              /\ alive' = alive
        /\ (long_press_timer = 0 - 1 /\ long_press_timer' # 0 - 1)
           => "lp_armed" \in res'
        /\ (ev' = Event("timer", "long_press")) => long_press_timer = 0
      ]_vars

C30_Witness ==
    /\ ev = Event("release", "Return") /\ "lp_cancelled" \in res
    /\ long_press_timer = 0 - 1 /\ ~is_active /\ apps # <<>>

(* C31: while a slide transition is in flight, a reorder move with N > 5    *)
(* is dropped: target_index and FocusIndex stay as they were, so FocusIndex *)
(* never advances without a transition being started for the step.          *)
C31_MoveLock ==
    [][ (is_active /\ Running /\ dialog = "none" /\ N > LinearLimit
         /\ is_animating /\ ev'.k = "key" /\ ev'.a \in {"Left", "Right"})
           => /\ target_index' = target_index
              /\ current_index' = current_index
              /\ "anim_started" \notin res'
      ]_vars

(* C32: when the completion callback of a transition runs over slots that   *)
(* a rebuild (confirm, cancel, remove) made while the transition was in     *)
(* flight has centred on FocusIndex, the slots stay the centred window:     *)
(* slot i is bound to (FocusIndex + i - 4) mod N after the callback.        *)
C32_LateCompletion ==
    [][ (Running /\ ev' = Event("timer", "animation") /\ N > 0
         /\ Bound = Window9(current_index))
           => /\ Len(apps') = N
              /\ \A i \in 1..max_visible_tiles :
                   tiles'[i].app_index
                       = (current_index' + (i - 1) - center_tile_index) % N
      ]_vars

(* C33: the completion callback runs only for a transition in flight, and   *)
(* it recycles the slots and then releases the animation lock, also when    *)
(* the list was changed or the slots were rebuilt in the meantime; and a    *)
(* lock that is held is eventually released.                                *)
C33_LockRelease ==
    /\ [][ (Running /\ ev' = Event("timer", "animation"))
              => /\ is_animating /\ anim_timer = 0
                 /\ "repositioned" \in res'
                 /\ ~is_animating' /\ anim_timer' = 0 - 1
                 /\ alive' = "running"
         ]_vars
    /\ (is_animating /\ Running) ~> (~is_animating \/ ~Running)

(* C34: during the 1000 ms after a confirm no input launches the focused    *)
(* item, neither Enter nor button A, and the exit-cooldown flag is cleared  *)
(* only by the cooldown timer's expiry.                                     *)
C34_NoLaunchAfterConfirm ==
    [][ (Running /\ since_exit.kind = "confirm")
           => /\ res' \cap {"launch_ok", "launch_failed"} = {}
              /\ launched_process' = launched_process
              /\ (recently_exited /\ ~recently_exited')
                   => ev' = Event("timer", "exit_cooldown")
      ]_vars

DirectionalCommands == {"hat_cmd", "x_cmd", "y_cmd"}

(* C35: a poll that comes straight after a poll on which a directional      *)
(* command fired (from the pad or from the stick) is inside the 2-poll      *)
(* cooldown and fires no directional command, whatever it reads.            *)
C35_DirectionalCooldown ==
    [][ (Running /\ ev.k = "poll" /\ res \cap DirectionalCommands # {}
         /\ ev'.k = "poll")
           => res' \cap DirectionalCommands = {}
      ]_vars

(* C36: whenever reorder is Active over more than 5 items, target_index     *)
(* equals FocusIndex: the carousel is centred on the target position.       *)
C36_TargetTracksFocus ==
    (is_active /\ N > LinearLimit) => target_index = current_index

(* C37: while a transition is in flight the centre slot is bound to the     *)
(* FocusIndex that held before it began, (FocusIndex - 1) mod N for a right *)
(* and (FocusIndex + 1) mod N for a left transition; with no transition in  *)
(* flight the centre slot is bound to FocusIndex.                           *)
C37_BindingLag ==
    (Running /\ N > 0 /\ Len(tiles) = max_visible_tiles)
        => tiles[center_tile_index + 1].app_index
               = IF ~is_animating THEN current_index
                 ELSE IF anim_dir = "right" THEN (current_index - 1) % N
                 ELSE (current_index + 1) % N

(* C38: menu mode and an Active reorder session are never in effect at the  *)
(* same time.                                                               *)
C38_ModeExclusion ==
    ~(is_in_menu /\ is_active)

(* C39: a confirm that changes the list ends the session, so a session      *)
(* changes the list at most once; and a confirm or cancel command issued    *)
(* while no session is Active (after the exit, before a new activation) is  *)
(* rejected: it changes neither the list nor FocusIndex and opens no        *)
(* session.                                                                 *)
C39_OneMutationPerSession ==
    [][ /\ (is_active /\ apps' # apps /\ "confirmed_moved" \in res'
            /\ alive' = "running")
           => ~is_active'
        /\ (Running /\ ~is_active /\ ConfirmOrCancel(ev')
            /\ ev' # Event("key", "Return"))
           => /\ apps' = apps /\ current_index' = current_index
              /\ ~is_active'
        /\ (Running /\ ~is_active /\ ev' = Event("key", "Return"))
           => /\ apps' = apps /\ current_index' = current_index
      ]_vars

(* C40: a poll that reads a stick axis beyond the threshold after a poll    *)
(* that read it inside the dead zone fires a command for that axis unless   *)
(* the cooldown holds the poll back, wherever the other axis is and         *)
(* whichever way the axis was pushed before.                                *)
C40_NoMissedPush ==
    [][ (Running /\ inputs_enabled /\ ev'.k = "poll"
         /\ "axis_cooling" \notin res')
           => /\ (pad.x = 0 /\ pad'.x # 0) => "x_cmd" \in res'
              /\ (pad.y = 0 /\ pad'.y # 0) => "y_cmd" \in res'
      ]_vars

=============================================================================
